---- MODULE Spec2Model ----
(***************************************************************************)
(* Model of the procedural noise library of src/terrain/noise.cpp:         *)
(* the Diamond-Square heightmap generator, the Perlin and Simplex engines  *)
(* with their hidden static instances, and the fBM compositors.            *)
(*                                                                         *)
(* float and double values are fixed-point integers in units of 1/Scale.   *)
(* Every call of the library is synchronous, so a call is one action; the  *)
(* steps a call performs are kept in a log carried by the object.          *)
(***************************************************************************)
EXTENDS Integers, Sequences, FiniteSets, TLC

VARIABLES dsf, inst, perlinStatic, simplexStatic, noiseCall, fbmCall,
          noiseObj, sample

vars == <<dsf, inst, perlinStatic, simplexStatic, noiseCall, fbmCall,
         noiseObj, sample>>

(***************************************************************************)
(* Bounds of the model.                                                    *)
(***************************************************************************)
MaxSize == 10
MaxPairSize == 5
MaxSeed == 2
MaxCalls == 3
MaxOctaves == 3

Sizes == 1..MaxSize
PairSizes == 1..MaxPairSize
Seeds == 0..MaxSeed
Instances == {1, 2}

(***************************************************************************)
(* Fixed-point arithmetic standing for float / double.                     *)
(***************************************************************************)
Scale == 10000

\* the roughness arguments the model passes: 0.0, 0.5 and 1.0
Roughs == {0, 5000, 10000}

FMul(a, b) == (a \div Scale) * b + ((a % Scale) * b) \div Scale

FDiv(a, b) == (a * Scale) \div b

Min2(a, b) == IF b < a THEN b ELSE a

Max2(a, b) == IF a < b THEN b ELSE a

\* C++ integer division and remainder truncate toward zero
CDiv(a, b) == IF a >= 0 THEN a \div b ELSE -((-a) \div b)

CMod(a, b) == a - b * CDiv(a, b)

(***************************************************************************)
(* std::mt19937 and std::uniform_real_distribution<float>(-1, 1): a        *)
(* generator whose state is a function of the seed and of the number of    *)
(* draws made, and whose draws lie in [-1, 1).                             *)
(***************************************************************************)
RngModulus == 65536

RngSeed(seed) == seed % RngModulus

RngNext(s) == (s * 25173 + 13849) % RngModulus

dist(s) ==
  LET s1 == RngNext(s)
  IN  [val |-> ((2 * Scale * s1) \div RngModulus) - Scale, rng |-> s1]

\* pow(2.0f, -roughness) for the roughness arguments of the model
Pow2Neg(roughness) ==
  CASE roughness = 0 -> 10000
    [] roughness = 2500 -> 8409
    [] roughness = 5000 -> 7071
    [] roughness = 7500 -> 5946
    [] roughness = 10000 -> 5000

(***************************************************************************)
(* class DiamondSquare.  An object is a record: size, heightmap and rng    *)
(* are the members; seed is the constructor's argument; calls counts the   *)
(* generate() calls, and roughness, wrap, log, written, pre, ranges and    *)
(* steps record the arguments and the steps of the last one (steps: the    *)
(* stepSize of each round of the main loop).                               *)
(***************************************************************************)
Idx(size) == 0..(size - 1)

ZeroMap(size) == [x \in Idx(size) |-> [y \in Idx(size) |-> 0]]

\* DiamondSquare::DiamondSquare(mapSize, seed)
DiamondSquare(mapSize, seed) ==
  [size |-> mapSize,
   heightmap |-> ZeroMap(mapSize),
   rng |-> RngSeed(seed),
   calls |-> 0,
   log |-> <<>>,
   written |-> {},
   pre |-> ZeroMap(mapSize),
   ranges |-> <<>>,
   steps |-> <<>>,
   seed |-> seed,
   roughness |-> 0,
   wrap |-> FALSE]

\* the cell getHeight reads: the coordinates after the optional wrap, and
\* whether they fall inside the grid
getHeightCell(size, x, y, wrap) ==
  LET wx == IF wrap THEN CMod(x + size, size) ELSE x
      wy == IF wrap THEN CMod(y + size, size) ELSE y
  IN  [x |-> wx, y |-> wy,
       inside |-> ~(wx < 0 \/ wx >= size \/ wy < 0 \/ wy >= size)]

getHeightWrapped(d, x, y, wrap) ==
  LET c == getHeightCell(d.size, x, y, TRUE)
  IN  IF c.inside THEN d.heightmap[c.x][c.y] ELSE 0

\* DiamondSquare::getHeight(x, y, wrap)
getHeight(d, x, y, wrap) ==
  LET c == getHeightCell(d.size, x, y, wrap)
  IN  IF c.inside THEN d.heightmap[c.x][c.y] ELSE 0

setHeightGuard(size, x, y) == x >= 0 /\ x < size /\ y >= 0 /\ y < size

setHeight(d, x, y, value) ==
  IF setHeightGuard(d.size, x, y)
  THEN [d EXCEPT !.heightmap[x][y] = value,
                 !.written = @ \cup {<<x, y>>}]
  ELSE d

\* dist(rng) * randomRange * 2.0f - randomRange
randomOffset(draw, randomRange) == FMul(draw, randomRange) * 2 - randomRange

\* the reads of diamondStep, in the order of the source
diamondReads(x, y, stepSize) ==
  << <<x - stepSize, y - stepSize>>, <<x + stepSize, y - stepSize>>,
     <<x - stepSize, y + stepSize>>, <<x + stepSize, y + stepSize>> >>

diamondStep(d, x, y, stepSize, randomRange, round) ==
  LET rd == diamondReads(x, y, stepSize)
      vals == [k \in 1..4 |-> getHeight(d, rd[k][1], rd[k][2], FALSE)]
      sum == vals[1] + vals[2] + vals[3] + vals[4]
      avg == sum \div 4
      dr == dist(d.rng)
      randomValue == randomOffset(dr.val, randomRange)
      d1 == setHeight([d EXCEPT !.rng = dr.rng], x, y, avg + randomValue)
  IN  [d1 EXCEPT !.log = Append(@,
        [kind |-> "diamond", x |-> x, y |-> y, round |-> round,
         half |-> stepSize, range |-> randomRange,
         reads |-> [k \in 1..4 |->
                      getHeightCell(d.size, rd[k][1], rd[k][2], FALSE)],
         vals |-> vals, count |-> 4, draw |-> dr.val, offset |-> randomValue,
         value |-> avg + randomValue])]

\* the four neighbours squareStep may read, in the order of the source
squareReads(x, y, stepSize) ==
  << <<x, y - stepSize>>, <<x + stepSize, y>>,
     <<x, y + stepSize>>, <<x - stepSize, y>> >>

squareTakenStrict(size, x, y, stepSize, wrap, k) ==
  CASE k = 1 -> wrap \/ (y - stepSize > 0)
    [] k = 2 -> wrap \/ (x + stepSize < size)
    [] k = 3 -> wrap \/ (y + stepSize < size)
    [] k = 4 -> wrap \/ (x - stepSize >= 0)

squareTakenAlways(size, x, y, stepSize, wrap, k) == TRUE

\* the condition under which squareStep adds neighbour k to sum
squareTaken(size, x, y, stepSize, wrap, k) ==
  CASE k = 1 -> wrap \/ (y - stepSize >= 0)
    [] k = 2 -> wrap \/ (x + stepSize < size)
    [] k = 3 -> wrap \/ (y + stepSize < size)
    [] k = 4 -> wrap \/ (x - stepSize >= 0)

RECURSIVE squareSum(_, _, _, _, _, _, _)
\* acc = [sum, count, reads, vals] after the first k - 1 neighbours
squareSum(d, x, y, stepSize, wrap, k, acc) ==
  IF k > 4 THEN acc
  ELSE LET rd == squareReads(x, y, stepSize)[k]
       IN  IF squareTaken(d.size, x, y, stepSize, wrap, k)
           THEN squareSum(d, x, y, stepSize, wrap, k + 1,
                  [sum |-> acc.sum + getHeight(d, rd[1], rd[2], wrap),
                   count |-> acc.count + 1,
                   reads |-> Append(acc.reads,
                               getHeightCell(d.size, rd[1], rd[2], wrap)),
                   vals |-> Append(acc.vals,
                                   getHeight(d, rd[1], rd[2], wrap))])
           ELSE squareSum(d, x, y, stepSize, wrap, k + 1, acc)

squareStep(d, x, y, stepSize, randomRange, wrap, round) ==
  LET acc == squareSum(d, x, y, stepSize, wrap, 1,
                       [sum |-> 0, count |-> 0, reads |-> <<>>,
                        vals |-> <<>>])
      \* sum / (float)count; a count of 0 would divide by zero
      avg == IF acc.count = 0 THEN 0 ELSE acc.sum \div acc.count
      dr == dist(d.rng)
      randomValue == randomOffset(dr.val, randomRange)
      d1 == setHeight([d EXCEPT !.rng = dr.rng], x, y, avg + randomValue)
  IN  [d1 EXCEPT !.log = Append(@,
        [kind |-> "square", x |-> x, y |-> y, round |-> round,
         half |-> stepSize, range |-> randomRange,
         reads |-> acc.reads, vals |-> acc.vals,
         count |-> acc.count, draw |-> dr.val, offset |-> randomValue,
         value |-> avg + randomValue])]

\* heightmap[x][y] = dist(rng) of the corner initialisation
cornerInit(d, x, y) ==
  LET dr == dist(d.rng)
  IN  [d EXCEPT !.rng = dr.rng,
                !.heightmap[x][y] = dr.val,
                !.written = @ \cup {<<x, y>>},
                !.log = Append(@,
                  [kind |-> "corner", x |-> x, y |-> y, round |-> 0,
                   half |-> 0, range |-> Scale, reads |-> <<>>,
                   vals |-> <<>>, count |-> 0, draw |-> dr.val, offset |-> 0,
                   value |-> dr.val])]

RECURSIVE diamondRow(_, _, _, _, _, _)
\* for (int x = halfStep; x < size; x += stepSize) diamondStep(...)
diamondRow(d, x, y, stepSize, randomRange, round) ==
  IF x < d.size
  THEN diamondRow(diamondStep(d, x, y, stepSize \div 2, randomRange, round),
                  x + stepSize, y, stepSize, randomRange, round)
  ELSE d

RECURSIVE diamondRows(_, _, _, _, _)
\* for (int y = halfStep; y < size; y += stepSize)
diamondRows(d, y, stepSize, randomRange, round) ==
  IF y < d.size
  THEN diamondRows(diamondRow(d, stepSize \div 2, y, stepSize, randomRange,
                              round),
                   y + stepSize, stepSize, randomRange, round)
  ELSE d

squareStartHalf(y, halfStep, stepSize) == halfStep

\* the first x of a square-step row: (y + halfStep) % stepSize
squareStart(y, halfStep, stepSize) == CMod(y + halfStep, stepSize)

RECURSIVE squareRow(_, _, _, _, _, _, _)
\* for (int x = ...; x < size; x += stepSize) squareStep(...)
squareRow(d, x, y, stepSize, randomRange, wrap, round) ==
  IF x < d.size
  THEN squareRow(squareStep(d, x, y, stepSize \div 2, randomRange, wrap,
                            round),
                 x + stepSize, y, stepSize, randomRange, wrap, round)
  ELSE d

RECURSIVE squareRows(_, _, _, _, _, _)
\* for (int y = 0; y < size; y += halfStep)
squareRows(d, y, stepSize, randomRange, wrap, round) ==
  IF y < d.size
  THEN squareRows(squareRow(d, squareStart(y, stepSize \div 2, stepSize), y,
                            stepSize, randomRange, wrap, round),
                  y + (stepSize \div 2), stepSize, randomRange, wrap, round)
  ELSE d

\* randomRange *= pow(2.0f, -roughness)
nextRange(randomRange, roughness) == FMul(randomRange, Pow2Neg(roughness))

nextStepQuarter(stepSize) == CDiv(stepSize, 4)

\* stepSize /= 2
nextStep(stepSize) == CDiv(stepSize, 2)

RECURSIVE rounds(_, _, _, _, _, _)
\* for (int stepSize = size - 1; stepSize > 1; stepSize /= 2)
rounds(d, stepSize, randomRange, roughness, wrap, round) ==
  IF stepSize > 1
  THEN LET d1 == diamondRows(d, stepSize \div 2, stepSize, randomRange, round)
           d2 == squareRows(d1, 0, stepSize, randomRange, wrap, round)
           rr == nextRange(randomRange, roughness)
       IN  rounds([d2 EXCEPT !.ranges = Append(@, rr),
                             !.steps = Append(@, stepSize)],
                  nextStep(stepSize), rr, roughness, wrap, round + 1)
  ELSE d

SetMin(S) == CHOOSE v \in S : \A w \in S : v <= w

SetMax(S) == CHOOSE v \in S : \A w \in S : w <= v

Heights(hm, size) == {hm[x][y] : x \in Idx(size), y \in Idx(size)}

\* the threshold 0.0001f of normalize
Epsilon == 1

normalizeCellNoMin(h, minVal, range) == FDiv(h, range)

\* (heightmap[x][y] - minVal) / range
normalizeCell(h, minVal, range) == FDiv(h - minVal, range)

normalize(d) ==
  LET minVal == SetMin(Heights(d.heightmap, d.size))
      maxVal == SetMax(Heights(d.heightmap, d.size))
      range == maxVal - minVal
  IN  IF range > Epsilon
      THEN [d EXCEPT !.heightmap =
              [x \in Idx(d.size) |-> [y \in Idx(d.size) |->
                 normalizeCell(d.heightmap[x][y], minVal, range)]]]
      ELSE d

\* DiamondSquare::generate(roughness, wrap)
generateEntryReset(d, roughness, wrap) ==
  [d EXCEPT !.calls = @ + 1, !.log = <<>>, !.written = {}, !.ranges = <<>>,
            !.steps = <<>>,
            !.roughness = roughness, !.wrap = wrap,
            !.heightmap = ZeroMap(d.size), !.rng = RngSeed(d.seed)]

\* the object as generate() finds it: heightmap and rng are the members as
\* the last call left them; only the per-call records start empty
generateEntry(d, roughness, wrap) ==
  [d EXCEPT !.calls = @ + 1, !.log = <<>>, !.written = {}, !.ranges = <<>>,
            !.steps = <<>>,
            !.roughness = roughness, !.wrap = wrap]

generate(d, roughness, wrap) ==
  LET d0 == generateEntry(d, roughness, wrap)
      c1 == cornerInit(d0, 0, 0)
      c2 == cornerInit(c1, d.size - 1, 0)
      c3 == cornerInit(c2, 0, d.size - 1)
      c4 == cornerInit(c3, d.size - 1, d.size - 1)
      r == rounds(c4, d.size - 1, Scale, roughness, wrap, 1)
  IN  normalize([r EXCEPT !.pre = r.heightmap])

(***************************************************************************)
(* generateDiamondSquareNoise(size, roughness, seed, wrap)                 *)
(***************************************************************************)
\* a call that has not run yet: its arguments, and no result
PendingDSCall(size, roughness, seed, wrap) ==
  [called |-> FALSE, size |-> size, roughness |-> roughness, seed |-> seed,
   wrap |-> wrap, outcome |-> "none", ds |-> DiamondSquare(1, 0),
   ret |-> ZeroMap(1)]

generateDiamondSquareNoise(size, roughness, seed, wrap) ==
  LET ds == generate(DiamondSquare(size, seed), roughness, wrap)
  IN  dsf' = [called |-> TRUE, size |-> size, roughness |-> roughness,
              seed |-> seed, wrap |-> wrap,
              outcome |-> "heightmap", ds |-> ds, ret |-> ds.heightmap]

(***************************************************************************)
(* The permutation table of PerlinNoise and SimplexNoise.  Tables are      *)
(* sequences read with a 0-based index.                                    *)
(*                                                                         *)
(* std::default_random_engine is the generator minstd_rand0 (state * 16807 *)
(* mod 2^31 - 1, computed without exceeding 32 bits); std::shuffle walks   *)
(* the table and swaps each position with a position drawn at or below it, *)
(* two positions per draw.                                                 *)
(***************************************************************************)
TableSize == 256

\* t[i].  A read outside the table has no defined value: the model carries 0
\* for it, and the index stays on record in the caller.
At(t, i) == IF i \in 0..(Len(t) - 1) THEN t[i + 1] ELSE 0

\* std::iota(p.begin(), p.end(), 0), as a sequence
iota(n) == [k \in 1..n |-> k - 1] \o <<>>

EngineModulus == 2147483647

\* std::default_random_engine engine(seed)
engineSeed(seed) ==
  IF seed % EngineModulus = 0 THEN 1 ELSE seed % EngineModulus

engineNext(s) ==
  LET t == 16807 * (s % 127773) - 2836 * (s \div 127773)
  IN  IF t < 0 THEN t + EngineModulus ELSE t

swapLosesValue(t, i, j) == [t EXCEPT ![i + 1] = t[j + 1]]

\* std::iter_swap on positions i and j
swap(t, i, j) == [t EXCEPT ![i + 1] = t[j + 1], ![j + 1] = t[i + 1]]

\* g.max() - g.min() of the engine
EngineRange == EngineModulus - 2

RECURSIVE uniformInt(_, _)
\* std::uniform_int_distribution{0, uerange - 1}(engine): the draw is scaled
\* down, and a draw at or past the last full multiple is drawn again
uniformInt(engine, uerange) ==
  LET e == engineNext(engine)
      scaling == EngineRange \div uerange
      past == uerange * scaling
  IN  IF e - 1 >= past THEN uniformInt(e, uerange)
      ELSE [val |-> (e - 1) \div scaling, engine |-> e]

\* the swap std::shuffle does up front on an even number of elements
shuffleFirst(st) ==
  IF Len(st.t) % 2 = 0 /\ Len(st.t) > 1
  THEN LET d == uniformInt(st.engine, 2)
       IN  [t |-> swap(st.t, 1, d.val), engine |-> d.engine]
  ELSE st

\* one iteration of the loop of std::shuffle: the positions i and i + 1 are
\* swapped with two positions at or below them, both taken from one draw
shuffleStep(st, i) ==
  LET d == uniformInt(st.engine, (i + 1) * (i + 2))
  IN  [t |-> swap(swap(st.t, i, d.val \div (i + 2)), i + 1, d.val % (i + 2)),
       engine |-> d.engine]

RECURSIVE shuffleRange(_, _, _, _)
\* the iterations lo..hi of the loop of std::shuffle in increasing order,
\* iteration k at position start + 2k.  The range is halved only to keep the
\* evaluation shallow; the engine state is never 0, and testing it makes the
\* first half be evaluated before the second.
shuffleRange(st, start, lo, hi) ==
  IF lo > hi THEN st
  ELSE IF lo = hi THEN shuffleStep(st, start + 2 * lo)
  ELSE LET mid == (lo + hi) \div 2
           first == shuffleRange(st, start, lo, mid)
       IN  IF first.engine > 0 THEN shuffleRange(first, start, mid + 1, hi)
           ELSE first

\* std::shuffle(p.begin(), p.end(), engine)
shuffle(t, engine) ==
  LET start == IF Len(t) % 2 = 0 THEN 2 ELSE 1
  IN  shuffleRange(shuffleFirst([t |-> t, engine |-> engine]), start,
                   0, ((Len(t) - start) \div 2) - 1).t

(***************************************************************************)
(* class PerlinNoise                                                       *)
(***************************************************************************)
PerlinNoiseUnpaired(seed) ==
  LET base == shuffle(iota(TableSize), engineSeed(seed))
  IN  base \o iota(TableSize)

\* PerlinNoise::PerlinNoise(seed): the member p
PerlinNoise(seed) ==
  LET base == shuffle(iota(TableSize), engineSeed(seed))
  IN  base \o base

Floor(x) == x \div Scale

CellOfWide(x) == Floor(x) % 512

\* (int)floor(x) & 255
CellOf(x) == Floor(x) % 256

fade(t) ==
  FMul(FMul(FMul(t, t), t),
       FMul(t, FMul(t, 6 * Scale) - 15 * Scale) + 10 * Scale)

lerp(t, a, b) == a + FMul(t, b - a)

gradSameAxis(hash, x, y, z) ==
  LET h == hash % 16
      u == IF h < 8 THEN x ELSE y
      v == IF h < 4 THEN y ELSE x
  IN  (IF h % 2 = 0 THEN u ELSE -u) + (IF (h \div 2) % 2 = 0 THEN v ELSE -v)

\* PerlinNoise::grad(hash, x, y, z)
grad(hash, x, y, z) ==
  LET h == hash % 16
      u == IF h < 8 THEN x ELSE y
      v == IF h < 4 THEN y ELSE IF h = 12 \/ h = 14 THEN x ELSE z
  IN  (IF h % 2 = 0 THEN u ELSE -u) + (IF (h \div 2) % 2 = 0 THEN v ELSE -v)

\* the table indices PerlinNoise::noise computes for the cell (X, Y, Z)
perlinHash(p, X, Y, Z) ==
  LET A == At(p, X) + Y
      B == At(p, X + 1) + Y
  IN  [A |-> A, AA |-> At(p, A) + Z, AB |-> At(p, A + 1) + Z,
       B |-> B, BA |-> At(p, B) + Z, BB |-> At(p, B + 1) + Z]

\* the table indices PerlinNoise::noise reads for the cell (X, Y, Z)
perlinIndices(p, X, Y, Z) ==
  LET h == perlinHash(p, X, Y, Z)
  IN  <<X, X + 1, h.A, h.A + 1, h.B, h.B + 1, h.AA, h.AA + 1, h.AB,
        h.AB + 1, h.BA, h.BA + 1, h.BB, h.BB + 1>>

\* the hash PerlinNoise::noise passes to grad for the corner (dx, dy, dz) of
\* the cell (X, Y, Z)
perlinCorner(p, X, Y, Z, dx, dy, dz) ==
  LET h == perlinHash(p, X, Y, Z)
      i == IF dx = 0 THEN (IF dy = 0 THEN h.AA ELSE h.AB)
           ELSE (IF dy = 0 THEN h.BA ELSE h.BB)
  IN  At(p, i + dz)

\* PerlinNoise::noise(x, y, z)
noise(p, xin, yin, zin) ==
  LET X == CellOf(xin)
      Y == CellOf(yin)
      Z == CellOf(zin)
      x == xin - Floor(xin) * Scale
      y == yin - Floor(yin) * Scale
      z == zin - Floor(zin) * Scale
      u == fade(x)
      v == fade(y)
      w == fade(z)
      h == perlinHash(p, X, Y, Z)
      res ==
        lerp(w,
          lerp(v, lerp(u, grad(At(p, h.AA), x, y, z),
                          grad(At(p, h.BA), x - Scale, y, z)),
                  lerp(u, grad(At(p, h.AB), x, y - Scale, z),
                          grad(At(p, h.BB), x - Scale, y - Scale, z))),
          lerp(v, lerp(u, grad(At(p, h.AA + 1), x, y, z - Scale),
                          grad(At(p, h.BA + 1), x - Scale, y, z - Scale)),
                  lerp(u, grad(At(p, h.AB + 1), x, y - Scale, z - Scale),
                          grad(At(p, h.BB + 1), x - Scale, y - Scale,
                               z - Scale))))
  IN  (res + Scale) \div 2

\* PerlinNoise::noise2D(x, y)
PerlinNoise_noise2D(p, x, y) == noise(p, x, y, 0)

(***************************************************************************)
(* class SimplexNoise                                                      *)
(***************************************************************************)
\* SimplexNoise::SimplexNoise(seed): the member perm
SimplexNoise(seed) ==
  LET p == shuffle(iota(TableSize), engineSeed(seed))
  IN  [k \in 1..(2 * TableSize) |-> At(p, (k - 1) % 256)]

\* 0.5 * (sqrt(3.0) - 1.0)
F2 == 3660

\* (3.0 - sqrt(3.0)) / 6.0
G2 == 2113

grad3 ==
  << <<1, 1, 0>>, <<-1, 1, 0>>, <<1, -1, 0>>, <<-1, -1, 0>>,
     <<1, 0, 1>>, <<-1, 0, 1>>, <<1, 0, -1>>, <<-1, 0, -1>>,
     <<0, 1, 1>>, <<0, -1, 1>>, <<0, 1, -1>>, <<0, -1, -1>> >>

fastfloor(x) ==
  LET xi == CDiv(x, Scale)
  IN  IF x < xi * Scale THEN xi - 1 ELSE xi

dot(g, x, y) == g[1] * x + g[2] * y

\* the contribution of one corner of the simplex
cornerContribution(g, x, y) ==
  LET t == (Scale \div 2) - FMul(x, x) - FMul(y, y)
  IN  IF t < 0 THEN 0
      ELSE LET t2 == FMul(t, t)
           IN  FMul(FMul(t2, t2), dot(g, x, y))

\* the gradient indices SimplexNoise::noise2D computes for the cell (i, j)
simplexHash(perm, i, j, i1, j1) ==
  LET ii == i % 256
      jj == j % 256
  IN  [gi0 |-> At(perm, ii + At(perm, jj)) % 12,
       gi1 |-> At(perm, ii + i1 + At(perm, jj + j1)) % 12,
       gi2 |-> At(perm, ii + 1 + At(perm, jj + 1)) % 12]

\* the simplex cell (i, j) of the point, the point's offset (x0, y0) in it,
\* and the middle corner (i1, j1)
simplexCell(xin, yin) ==
  LET s == FMul(xin + yin, F2)
      i == fastfloor(xin + s)
      j == fastfloor(yin + s)
      t == (i + j) * G2
      X0 == i * Scale - t
      Y0 == j * Scale - t
      x0 == xin - X0
      y0 == yin - Y0
  IN  [i |-> i, j |-> j, x0 |-> x0, y0 |-> y0,
       i1 |-> IF x0 > y0 THEN 1 ELSE 0, j1 |-> IF x0 > y0 THEN 0 ELSE 1]

\* the table indices SimplexNoise::noise2D reads for the cell (i, j), in the
\* order jj, jj+j1, jj+1, ii+perm[jj], ii+i1+perm[jj+j1], ii+1+perm[jj+1]
simplexIndices(perm, i, j, i1, j1) ==
  LET ii == i % 256
      jj == j % 256
  IN  <<jj, jj + j1, jj + 1, ii + At(perm, jj),
        ii + i1 + At(perm, jj + j1), ii + 1 + At(perm, jj + 1)>>

\* SimplexNoise::noise2D(xin, yin)
SimplexNoise_noise2D(perm, xin, yin) ==
  LET c == simplexCell(xin, yin)
      i == c.i
      j == c.j
      x0 == c.x0
      y0 == c.y0
      i1 == c.i1
      j1 == c.j1
      x1 == x0 - i1 * Scale + G2
      y1 == y0 - j1 * Scale + G2
      x2 == x0 - Scale + 2 * G2
      y2 == y0 - Scale + 2 * G2
      g == simplexHash(perm, i, j, i1, j1)
      n0 == cornerContribution(grad3[g.gi0 + 1], x0, y0)
      n1 == cornerContribution(grad3[g.gi1 + 1], x1, y1)
      n2 == cornerContribution(grad3[g.gi2 + 1], x2, y2)
  IN  (70 * (n0 + n1 + n2) + Scale) \div 2

(***************************************************************************)
(* generatePerlinNoise and generateSimplexNoise: each holds a function-    *)
(* local static engine, constructed by the first call that reaches it.     *)
(***************************************************************************)
\* the coordinates the model passes: -0.75, 1.3 and 0, 0.5
Coords == {-7500, 13000}
ZCoords == {0, 5000}

\* a static engine before its first use
NoEngine == [init |-> FALSE, seed |-> 0, table |-> <<>>]

NoNoiseCall ==
  [fn |-> "none", x |-> 0, y |-> 0, z |-> 0, seed |-> 0, ret |-> 0]

\* no PerlinNoise or SimplexNoise object constructed by the client
NoObjects == [built |-> FALSE, seed |-> 0, p |-> <<>>, perm |-> <<>>]

NoSample ==
  [fn |-> "none", x |-> 0, y |-> 0, z |-> 0, hash |-> 0, ret |-> 0,
   idx |-> <<>>, gi |-> <<>>]

staticPerlinPerCall(engine, seed) ==
  [init |-> TRUE, seed |-> seed, table |-> PerlinNoise(seed)]

\* static PerlinNoise perlin(seed): runs the constructor once
staticPerlin(engine, seed) ==
  IF engine.init THEN engine
  ELSE [init |-> TRUE, seed |-> seed, table |-> PerlinNoise(seed)]

\* static SimplexNoise simplex(seed): runs the constructor once
staticSimplex(engine, seed) ==
  IF engine.init THEN engine
  ELSE [init |-> TRUE, seed |-> seed, table |-> SimplexNoise(seed)]

generatePerlinNoise(x, y, z, seed) ==
  LET perlin == staticPerlin(perlinStatic, seed)
  IN  /\ perlinStatic' = perlin
      /\ noiseCall' = [fn |-> "perlin", x |-> x, y |-> y, z |-> z,
                       seed |-> seed, ret |-> noise(perlin.table, x, y, z)]
      /\ UNCHANGED simplexStatic

generateSimplexNoise(x, y, seed) ==
  LET simplex == staticSimplex(simplexStatic, seed)
  IN  /\ simplexStatic' = simplex
      /\ noiseCall' = [fn |-> "simplex", x |-> x, y |-> y, z |-> 0,
                       seed |-> seed,
                       ret |-> SimplexNoise_noise2D(simplex.table, x, y)]
      /\ UNCHANGED perlinStatic

(***************************************************************************)
(* generatePerlinFBM and generateSimplexFBM.  A double result is a record: *)
(* a number, or the NaN / infinity a division by zero produces.            *)
(***************************************************************************)
\* total / maxValue
fbmDivide(total, maxValue) ==
  IF maxValue # 0 THEN [kind |-> "num", val |-> FDiv(total, maxValue)]
  ELSE IF total = 0 THEN [kind |-> "nan", val |-> 0]
  ELSE [kind |-> "inf", val |-> IF total > 0 THEN 1 ELSE -1]

\* the locals of the fBM functions before the loop
fbmStart ==
  [total |-> 0, frequency |-> Scale, amplitude |-> Scale, maxValue |-> 0,
   samples |-> <<>>]

octaveStepLateMax(acc, n, persistence, lacunarity) ==
  [total |-> acc.total + FMul(n, acc.amplitude),
   maxValue |-> acc.maxValue + FMul(acc.amplitude, persistence),
   amplitude |-> FMul(acc.amplitude, persistence),
   frequency |-> FMul(acc.frequency, lacunarity),
   samples |-> Append(acc.samples, n)]

\* the body of the octave loop, given the noise value n of the octave
octaveStep(acc, n, persistence, lacunarity) ==
  [total |-> acc.total + FMul(n, acc.amplitude),
   maxValue |-> acc.maxValue + acc.amplitude,
   amplitude |-> FMul(acc.amplitude, persistence),
   frequency |-> FMul(acc.frequency, lacunarity),
   samples |-> Append(acc.samples, n)]

RECURSIVE perlinOctaves(_, _, _, _, _, _, _, _)
\* for (int i = 0; i < octaves; i++) of generatePerlinFBM
perlinOctaves(p, x, y, octaves, persistence, lacunarity, i, acc) ==
  IF i < octaves
  THEN perlinOctaves(p, x, y, octaves, persistence, lacunarity, i + 1,
         octaveStep(acc,
                    PerlinNoise_noise2D(p, FMul(x, acc.frequency),
                                        FMul(y, acc.frequency)),
                    persistence, lacunarity))
  ELSE acc

RECURSIVE simplexOctaves(_, _, _, _, _, _, _, _)
\* for (int i = 0; i < octaves; i++) of generateSimplexFBM
simplexOctaves(perm, x, y, octaves, persistence, lacunarity, i, acc) ==
  IF i < octaves
  THEN simplexOctaves(perm, x, y, octaves, persistence, lacunarity, i + 1,
         octaveStep(acc,
                    SimplexNoise_noise2D(perm, FMul(x, acc.frequency),
                                         FMul(y, acc.frequency)),
                    persistence, lacunarity))
  ELSE acc

\* a call that has not run yet: its arguments, and no result
PendingFBMCall(fn, x, y, octaves, persistence, lacunarity, seed) ==
  [called |-> FALSE, fn |-> fn, x |-> x, y |-> y, octaves |-> octaves,
   persistence |-> persistence, lacunarity |-> lacunarity, seed |-> seed,
   outcome |-> "none", ret |-> [kind |-> "num", val |-> 0],
   samples |-> <<>>, maxValue |-> 0]

generatePerlinFBM(x, y, octaves, persistence, lacunarity, seed) ==
  LET perlin == PerlinNoise(seed)
      acc == perlinOctaves(perlin, x, y, octaves, persistence, lacunarity,
                           0, fbmStart)
  IN  fbmCall' = [fbmCall EXCEPT !.called = TRUE, !.outcome = "value",
                    !.ret = fbmDivide(acc.total, acc.maxValue),
                    !.samples = acc.samples, !.maxValue = acc.maxValue]

generateSimplexFBM(x, y, octaves, persistence, lacunarity, seed) ==
  LET simplex == SimplexNoise(seed)
      acc == simplexOctaves(simplex, x, y, octaves, persistence, lacunarity,
                            0, fbmStart)
  IN  fbmCall' = [fbmCall EXCEPT !.called = TRUE, !.outcome = "value",
                    !.ret = fbmDivide(acc.total, acc.maxValue),
                    !.samples = acc.samples, !.maxValue = acc.maxValue]

\* the arguments the model passes
FbmX == {2500, 13000}
FbmY == {-7500, 6000}
Octaves == (-1)..MaxOctaves
Persistences == {-10000, -5000, 0, 5000, 9000}
Lacunarities == {15000, 20000}

NoFBMCall == PendingFBMCall("none", 0, 0, 0, 0, 0, 0)

(***************************************************************************)
(* Specifications.                                                         *)
(***************************************************************************)
InitDS ==
  /\ \E size \in Sizes, roughness \in Roughs, seed \in Seeds, wrap \in BOOLEAN :
       dsf = PendingDSCall(size, roughness, seed, wrap)
  /\ inst = [i \in Instances |-> DiamondSquare(1, 0)]
  /\ perlinStatic = NoEngine
  /\ simplexStatic = NoEngine
  /\ noiseCall = NoNoiseCall
  /\ fbmCall = NoFBMCall
  /\ noiseObj = NoObjects
  /\ sample = NoSample

CallDiamondSquareNoise ==
  /\ ~dsf.called
  /\ generateDiamondSquareNoise(dsf.size, dsf.roughness, dsf.seed, dsf.wrap)
  /\ UNCHANGED <<inst, perlinStatic, simplexStatic, noiseCall, fbmCall,
                 noiseObj, sample>>

NextDS == CallDiamondSquareNoise

SpecDS == InitDS /\ [][NextDS]_vars

(***************************************************************************)
(* Two DiamondSquare objects constructed with the same size and seed.  The *)
(* client calls generate() on either of them, one call after the other,    *)
(* MaxCalls calls in all; it passes one wrap mode to all its calls and any *)
(* roughness of PairRoughs to each.                                        *)
(***************************************************************************)
PairRoughs == {0, 10000}

rngShared(i) == 1

\* the generator instance i draws from: rng is a member, one per object
rngOwner(i) == i

InitPair ==
  /\ \E size \in PairSizes, seed \in Seeds, wrap \in BOOLEAN :
       inst = [i \in Instances |->
                 [DiamondSquare(size, seed) EXCEPT !.wrap = wrap]]
  /\ dsf = PendingDSCall(1, 0, 0, FALSE)
  /\ perlinStatic = NoEngine
  /\ simplexStatic = NoEngine
  /\ noiseCall = NoNoiseCall
  /\ fbmCall = NoFBMCall
  /\ noiseObj = NoObjects
  /\ sample = NoSample

Generate(i) ==
  /\ inst[1].calls + inst[2].calls < MaxCalls
  /\ \E roughness \in PairRoughs :
       LET o == rngOwner(i)
           g == generate([inst[i] EXCEPT !.rng = inst[o].rng], roughness,
                         inst[i].wrap)
       IN  inst' = [j \in Instances |->
                     IF j = i THEN [g EXCEPT !.rng = IF o = i THEN g.rng
                                                     ELSE inst[i].rng]
                     ELSE IF j = o THEN [inst[j] EXCEPT !.rng = g.rng]
                     ELSE inst[j]]
  /\ UNCHANGED <<dsf, perlinStatic, simplexStatic, noiseCall, fbmCall,
                 noiseObj, sample>>

NextPair == \E i \in Instances : Generate(i)

SpecPair == InitPair /\ [][NextPair]_vars

InitNoise ==
  /\ perlinStatic = NoEngine
  /\ simplexStatic = NoEngine
  /\ noiseCall = NoNoiseCall
  /\ dsf = PendingDSCall(1, 0, 0, FALSE)
  /\ inst = [i \in Instances |-> DiamondSquare(1, 0)]
  /\ fbmCall = NoFBMCall
  /\ noiseObj = NoObjects
  /\ sample = NoSample

CallPerlinNoise ==
  /\ \E x \in Coords, y \in Coords, z \in ZCoords, seed \in Seeds :
       generatePerlinNoise(x, y, z, seed)
  /\ UNCHANGED <<dsf, inst, fbmCall, noiseObj, sample>>

CallSimplexNoise ==
  /\ \E x \in Coords, y \in Coords, seed \in Seeds :
       generateSimplexNoise(x, y, seed)
  /\ UNCHANGED <<dsf, inst, fbmCall, noiseObj, sample>>

NextNoise == CallPerlinNoise \/ CallSimplexNoise

SpecNoise == InitNoise /\ [][NextNoise]_vars

InitFBM ==
  /\ \E fn \in {"perlin", "simplex"}, x \in FbmX, y \in FbmY, octaves \in Octaves,
        persistence \in Persistences, lacunarity \in Lacunarities,
        seed \in Seeds :
       fbmCall = PendingFBMCall(fn, x, y, octaves, persistence, lacunarity,
                                seed)
  /\ perlinStatic = NoEngine
  /\ simplexStatic = NoEngine
  /\ noiseCall = NoNoiseCall
  /\ dsf = PendingDSCall(1, 0, 0, FALSE)
  /\ inst = [i \in Instances |-> DiamondSquare(1, 0)]
  /\ noiseObj = NoObjects
  /\ sample = NoSample

CallPerlinFBM ==
  /\ ~fbmCall.called /\ fbmCall.fn = "perlin"
  /\ generatePerlinFBM(fbmCall.x, fbmCall.y, fbmCall.octaves,
                       fbmCall.persistence, fbmCall.lacunarity, fbmCall.seed)
  /\ UNCHANGED <<dsf, inst, perlinStatic, simplexStatic, noiseCall,
                 noiseObj, sample>>

CallSimplexFBM ==
  /\ ~fbmCall.called /\ fbmCall.fn = "simplex"
  /\ generateSimplexFBM(fbmCall.x, fbmCall.y, fbmCall.octaves,
                        fbmCall.persistence, fbmCall.lacunarity, fbmCall.seed)
  /\ UNCHANGED <<dsf, inst, perlinStatic, simplexStatic, noiseCall,
                 noiseObj, sample>>

NextFBM == CallPerlinFBM \/ CallSimplexFBM

SpecFBM == InitFBM /\ [][NextFBM]_vars

(***************************************************************************)
(* A PerlinNoise and a SimplexNoise object constructed with one seed.  The *)
(* client calls noise and noise2D on them at the points below; grad is     *)
(* called as noise calls it, with a hash and an offset.  Each call leaves  *)
(* its arguments, its result and the table indices it read in sample.      *)
(***************************************************************************)
\* -0.75, 107.475, 255.5
SampleXs == {-7500, 1074750, 2555000}
\* -0.75, 0.25, 116.5, 255.25
SampleYs == {-7500, 2500, 1165000, 2552500}
\* 0, 82.65, 255.5
SampleZs == {0, 826500, 2555000}

\* the hashes grad is given: every value of hash & 15, and the largest entry
GradHashes == (0..15) \cup {255}

\* the offsets grad is given: the three axes and a point off every axis
GradOffsets ==
  {<<Scale, 0, 0>>, <<0, Scale, 0>>, <<0, 0, Scale>>, <<3000, -7000, 4500>>}

InitSample ==
  /\ \E seed \in Seeds :
       noiseObj = [built |-> TRUE, seed |-> seed, p |-> PerlinNoise(seed),
                   perm |-> SimplexNoise(seed)]
  /\ sample = NoSample
  /\ dsf = PendingDSCall(1, 0, 0, FALSE)
  /\ inst = [i \in Instances |-> DiamondSquare(1, 0)]
  /\ perlinStatic = NoEngine
  /\ simplexStatic = NoEngine
  /\ noiseCall = NoNoiseCall
  /\ fbmCall = NoFBMCall

\* perlin.noise(x, y, z)
SamplePerlin ==
  /\ \E x \in SampleXs, y \in SampleYs, z \in SampleZs :
       sample' = [fn |-> "perlin", x |-> x, y |-> y, z |-> z, hash |-> 0,
                  ret |-> noise(noiseObj.p, x, y, z),
                  idx |-> perlinIndices(noiseObj.p, CellOf(x), CellOf(y),
                                        CellOf(z)),
                  gi |-> <<>>]
  /\ UNCHANGED <<dsf, inst, perlinStatic, simplexStatic, noiseCall, fbmCall,
                 noiseObj>>

\* simplex.noise2D(x, y)
SampleSimplex ==
  /\ \E x \in SampleXs, y \in SampleYs :
       LET c == simplexCell(x, y)
           g == simplexHash(noiseObj.perm, c.i, c.j, c.i1, c.j1)
       IN  sample' = [fn |-> "simplex", x |-> x, y |-> y, z |-> 0,
                      hash |-> 0,
                      ret |-> SimplexNoise_noise2D(noiseObj.perm, x, y),
                      idx |-> simplexIndices(noiseObj.perm, c.i, c.j, c.i1,
                                             c.j1),
                      gi |-> <<g.gi0, g.gi1, g.gi2>>]
  /\ UNCHANGED <<dsf, inst, perlinStatic, simplexStatic, noiseCall, fbmCall,
                 noiseObj>>

\* grad(hash, x, y, z)
SampleGrad ==
  /\ \E hash \in GradHashes, o \in GradOffsets :
       sample' = [fn |-> "grad", x |-> o[1], y |-> o[2], z |-> o[3],
                  hash |-> hash, ret |-> grad(hash, o[1], o[2], o[3]),
                  idx |-> <<>>, gi |-> <<>>]
  /\ UNCHANGED <<dsf, inst, perlinStatic, simplexStatic, noiseCall, fbmCall,
                 noiseObj>>

NextSample == SamplePerlin \/ SampleSimplex \/ SampleGrad

SpecSample == InitSample /\ [][NextSample]_vars

(***************************************************************************)
(* Properties of the Diamond-Square generator.                             *)
(***************************************************************************)
\* size = 2^n + 1 for some n >= 1
ValidSize(size) == \E n \in 1..size : size = 2^n + 1

AllCells(size) == Idx(size) \X Idx(size)

SquareSteps(log) == {k \in 1..Len(log) : log[k].kind = "square"}

\* C1: a call with a size that is not 2^n + 1 is rejected with a validation
\* error before any grid cell is computed, and returns no heightmap.
C1_InvalidSizeRejected ==
  (dsf.called /\ ~ValidSize(dsf.size)) =>
    (dsf.outcome = "error" /\ dsf.ds.log = <<>>)

\* C2: for size = 2^n + 1 and both wrap modes, when generate() returns every
\* cell of the grid has been assigned by a corner initialisation, a diamond
\* step or a square step of that call.
C2_EveryCellAssigned ==
  (dsf.called /\ ValidSize(dsf.size)) =>
    /\ dsf.ds.written = AllCells(dsf.size)
    /\ {<<dsf.ds.log[k].x, dsf.ds.log[k].y>> : k \in 1..Len(dsf.ds.log)}
         = AllCells(dsf.size)

C2_Witness ==
  /\ dsf.called /\ dsf.size = 9 /\ dsf.wrap
  /\ dsf.ds.written = AllCells(9)

PreRange(d) ==
  SetMax(Heights(d.pre, d.size)) - SetMin(Heights(d.pre, d.size))

\* C3: after generate(), if the range of the grid before normalization is
\* greater than 0.0001 the minimum cell is exactly 0, the maximum exactly 1
\* and every cell lies in [0,1]; otherwise normalize() leaves every cell
\* unchanged.
C3_Normalized ==
  dsf.called =>
    IF PreRange(dsf.ds) > Epsilon
    THEN /\ SetMin(Heights(dsf.ret, dsf.size)) = 0
         /\ SetMax(Heights(dsf.ret, dsf.size)) = Scale
         /\ \A h \in Heights(dsf.ret, dsf.size) : 0 <= h /\ h <= Scale
    ELSE dsf.ret = dsf.ds.pre

C3_Witness ==
  /\ dsf.called /\ dsf.size = 5 /\ PreRange(dsf.ds) > Epsilon
  /\ SetMin(Heights(dsf.ret, 5)) = 0
  /\ SetMin(Heights(dsf.ds.pre, 5)) < 0

\* the draws of a generate() call: which cell each draw was made for
Draws(d) == [k \in 1..Len(d.log) |-> <<d.log[k].x, d.log[k].y, d.log[k].draw>>]

TwiceAndOnce(i, j) ==
  /\ inst[i].calls = 2 /\ inst[j].calls = 1
  /\ inst[i].roughness = inst[j].roughness

\* C14: generate() neither zeroes the grid nor re-seeds the generator: a call
\* draws first what the generator left by the previous call yields next, a
\* cell the call does not write keeps its old value, and after a second call
\* the draws and the grid differ from those of a fresh instance with the same
\* seed after one call.
C14_SecondCallDiffers ==
  /\ [](\A i, j \in Instances :
          TwiceAndOnce(i, j) =>
            /\ Draws(inst[i]) # Draws(inst[j])
            /\ inst[i].heightmap # inst[j].heightmap)
  /\ [][\A i \in Instances :
          inst'[i].calls = inst[i].calls + 1 =>
            /\ inst'[i].log[1].draw = dist(inst[i].rng).val
            /\ \A c \in AllCells(inst[i].size) \ inst'[i].written :
                 inst'[i].pre[c[1]][c[2]] = inst[i].heightmap[c[1]][c[2]]]_vars

\* a second call on a 5 x 5 grid next to a fresh instance's first call
C14_Witness ==
  /\ TwiceAndOnce(1, 2)
  /\ inst[1].size = 5
  /\ inst[1].heightmap # inst[2].heightmap

\* the neighbours at distance h along the axes that lie inside the grid
InsideNeighbours(size, x, y, h) ==
  {c \in {<<x, y - h>>, <<x + h, y>>, <<x, y + h>>, <<x - h, y>>} :
     c[1] \in Idx(size) /\ c[2] \in Idx(size)}

OnEdge(size, x, y) == x = 0 \/ y = 0 \/ x = size - 1 \/ y = size - 1

\* C7: in every squareStep call count is the number of neighbour heights
\* added to sum: 4 with wrap; without wrap the number of axis neighbours at
\* distance halfStep inside the grid, which for size = 2^n + 1 is 3 on edge
\* cells and 4 on interior cells; count is never 0.
C7_SquareCount ==
  dsf.called =>
    \A k \in SquareSteps(dsf.ds.log) :
      LET e == dsf.ds.log[k]
      IN  /\ e.count = Len(e.reads)
          /\ e.count # 0
          /\ dsf.wrap => (e.count = 4 /\ \A r \in 1..4 : e.reads[r].inside)
          /\ ~dsf.wrap =>
                e.count = Cardinality(InsideNeighbours(dsf.size, e.x, e.y, e.half))
          /\ (~dsf.wrap /\ ValidSize(dsf.size)) =>
                e.count = IF OnEdge(dsf.size, e.x, e.y) THEN 3 ELSE 4

C7_Witness ==
  /\ dsf.called /\ dsf.size = 5 /\ ~dsf.wrap
  /\ \E k \in SquareSteps(dsf.ds.log) : dsf.ds.log[k].count = 3
  /\ \E k \in SquareSteps(dsf.ds.log) : dsf.ds.log[k].count = 4

\* C10: for roughness r1 < r2 and every round k >= 1, randomRange after k
\* rounds with r1 is smaller than with r2 (0.0 = smooth, 1.0 = rough).
C10_LowerRoughnessShrinksFaster ==
  \A i \in Instances, j \in Instances :
    (/\ inst[i].calls >= 1 /\ inst[j].calls >= 1
     /\ inst[i].roughness < inst[j].roughness)
    => \A k \in 1..Len(inst[i].ranges) :
         inst[i].ranges[k] < inst[j].ranges[k]

\* the cells inside the grid that the step of log entry e read
CellsRead(e) ==
  {<<e.reads[k].x, e.reads[k].y>> :
     k \in {n \in 1..Len(e.reads) : e.reads[n].inside}}

\* the positions of the log entries of one kind and round
StepsOf(log, kind, round) ==
  {k \in 1..Len(log) : log[k].kind = kind /\ log[k].round = round}

\* no step of the given kind reads a cell that another step of the same kind
\* and round writes
PhaseIndependent(log, kind) ==
  \A k \in 1..Len(log) :
    log[k].kind = kind =>
      \A j \in StepsOf(log, kind, log[k].round) \ {k} :
        <<log[j].x, log[j].y>> \notin CellsRead(log[k])

\* every cell a square step reads is written by a diamond step of its round
\* or by a step (or the corner initialisation) of an earlier round
SquareReadsSettled(log) ==
  \A k \in SquareSteps(log) :
    \A c \in CellsRead(log[k]) :
      \E j \in 1..Len(log) :
        /\ <<log[j].x, log[j].y>> = c
        /\ \/ log[j].round < log[k].round
           \/ log[j].round = log[k].round /\ log[j].kind = "diamond"

\* C15: for size 2^n + 1 and both wrap modes, in every round no diamond step
\* reads a cell another diamond step of the round writes, no square step
\* reads a cell another square step of the round writes, and square steps
\* read only cells written by the round's diamond steps or by earlier rounds.
C15_PhasesIndependent ==
  (dsf.called /\ ValidSize(dsf.size)) =>
    /\ PhaseIndependent(dsf.ds.log, "diamond")
    /\ PhaseIndependent(dsf.ds.log, "square")
    /\ SquareReadsSettled(dsf.ds.log)

\* the n of size = 2^n + 1
Exponent(size) == CHOOSE n \in 1..size : size = 2^n + 1

\* C17: for size = 2^n + 1, n >= 1, the main loop of generate() runs exactly
\* n rounds with stepSize 2^n, 2^(n-1), ..., 2 in that order; every stepSize
\* is even, every step of a round works with halfStep = stepSize / 2 exactly,
\* and the last round has halfStep 1.
C17_RoundsHalveToTwo ==
  (dsf.called /\ ValidSize(dsf.size)) =>
    LET n == Exponent(dsf.size)
        steps == dsf.ds.steps
        log == dsf.ds.log
    IN  /\ Len(steps) = n
        /\ \A r \in 1..n : steps[r] = 2^(n - r + 1) /\ steps[r] % 2 = 0
        /\ \A k \in 1..Len(log) :
             log[k].kind # "corner" =>
               /\ log[k].round \in 1..n
               /\ 2 * log[k].half = steps[log[k].round]
        /\ \A r \in 1..n :
             StepsOf(log, "diamond", r) # {} /\ StepsOf(log, "square", r) # {}
        /\ \A k \in StepsOf(log, "square", n) : log[k].half = 1

\* a 9 x 9 grid: three rounds
C17_Witness ==
  /\ dsf.called /\ dsf.size = 9
  /\ dsf.ds.steps = <<8, 4, 2>>

DiamondSteps(log) == {k \in 1..Len(log) : log[k].kind = "diamond"}

\* C18: in diamondStep each of the four diagonal reads that falls outside the
\* grid contributes the height 0 to the sum, and the sum is always divided
\* by 4; so also when generate() was called with wrap = true, because the
\* diamond reads are never wrapped.
C18_DiamondOutsideIsZero ==
  dsf.called =>
    \A k \in DiamondSteps(dsf.ds.log) :
      LET e == dsf.ds.log[k]
          rd == diamondReads(e.x, e.y, e.half)
      IN  /\ Len(e.reads) = 4 /\ e.count = 4
          /\ \A n \in 1..4 :
               /\ e.reads[n].x = rd[n][1] /\ e.reads[n].y = rd[n][2]
               /\ e.reads[n].inside =
                    (rd[n][1] \in Idx(dsf.size) /\ rd[n][2] \in Idx(dsf.size))
               /\ ~e.reads[n].inside => e.vals[n] = 0
          /\ e.value
               = (e.vals[1] + e.vals[2] + e.vals[3] + e.vals[4]) \div 4
                 + e.offset

\* a call with wrap = true in which a diamond step reads outside the grid
\* next to a cell that holds a height
C18_Witness ==
  /\ dsf.called /\ dsf.wrap
  /\ \E k \in DiamondSteps(dsf.ds.log) :
       LET e == dsf.ds.log[k]
       IN  /\ \E n \in 1..4 : ~e.reads[n].inside
           /\ \E n \in 1..4 : e.reads[n].inside /\ e.vals[n] # 0

\* C20: for size = 2^n + 1 and wrap = true, every cell a square step reads,
\* after the index is wrapped with (x + size) % size, was assigned by an
\* earlier step of the same generate() call.
C20_WrappedReadsAssigned ==
  (dsf.called /\ ValidSize(dsf.size) /\ dsf.wrap) =>
    \A k \in SquareSteps(dsf.ds.log) :
      \A c \in CellsRead(dsf.ds.log[k]) :
        \E j \in 1..(k - 1) :
          <<dsf.ds.log[j].x, dsf.ds.log[j].y>> = c

\* every read of every diamond and square step in the log is a cell inside
\* the grid that an earlier entry of the same log assigned
ReadsInsideAndAssigned(log) ==
  \A k \in 1..Len(log) :
    \A n \in 1..Len(log[k].reads) :
      /\ log[k].reads[n].inside
      /\ \E j \in 1..(k - 1) :
           log[j].x = log[k].reads[n].x /\ log[j].y = log[k].reads[n].y

\* C21: for size = 2^n + 1 and wrap = false, every cell a diamond or square
\* step reads lies inside the grid (a square neighbour outside it is skipped)
\* and was assigned earlier in the same generate() call; so the grid a call
\* produces is the grid the same call produces from an all-zero grid with the
\* same generator state, whatever the grid held before.
C21_ReadsAssignedNoWrap ==
  /\ [](\A i \in Instances :
          (inst[i].calls > 0 /\ ValidSize(inst[i].size) /\ ~inst[i].wrap) =>
            /\ ReadsInsideAndAssigned(inst[i].log)
            /\ inst[i].written = AllCells(inst[i].size))
  /\ [][\A i \in Instances :
          (/\ inst'[i].calls = inst[i].calls + 1
           /\ ValidSize(inst[i].size) /\ ~inst'[i].wrap) =>
            inst'[i].heightmap
              = generate([inst[i] EXCEPT !.heightmap = ZeroMap(inst[i].size)],
                         inst'[i].roughness, FALSE).heightmap]_vars

\* a second call without wrap on a 5 x 5 grid that holds the heights of the
\* first, with a square step on the edge that skips a neighbour
C21_Witness ==
  /\ inst[1].calls = 2 /\ inst[1].size = 5 /\ ~inst[1].wrap
  /\ \E k \in SquareSteps(inst[1].log) : inst[1].log[k].count = 3
  /\ inst[1].heightmap # ZeroMap(5)

\* C22: the random offset diamondStep and squareStep add to the neighbour
\* average, dist(rng) * randomRange * 2 - randomRange with dist(rng) drawn
\* from [-1, 1], lies in [-randomRange, +randomRange].
C22_OffsetWithinRange ==
  dsf.called =>
    \A k \in 1..Len(dsf.ds.log) :
      LET e == dsf.ds.log[k]
      IN  e.kind # "corner" =>
            /\ e.draw \in (-Scale)..Scale
            /\ e.offset = randomOffset(e.draw, e.range)
            /\ e.offset \in (-e.range)..e.range

(***************************************************************************)
(* Properties of the noise engines and of the fBM compositors.             *)
(***************************************************************************)
\* C5: the value generatePerlinNoise / generateSimplexNoise returns is the
\* value a fresh engine built from the seed argument returns, whatever calls
\* came before.
C5_ResultFromArgumentsAlone ==
  /\ noiseCall.fn = "perlin" =>
       noiseCall.ret = noise(PerlinNoise(noiseCall.seed),
                             noiseCall.x, noiseCall.y, noiseCall.z)
  /\ noiseCall.fn = "simplex" =>
       noiseCall.ret = SimplexNoise_noise2D(SimplexNoise(noiseCall.seed),
                                            noiseCall.x, noiseCall.y)

\* the 512-entry table t holds a permutation of 0..255, twice
IsPermutationTable(t) ==
  /\ Len(t) = 2 * TableSize
  /\ {t[k] : k \in 1..TableSize} = 0..(TableSize - 1)
  /\ \A k \in 1..TableSize : t[k + TableSize] = t[k]

\* C6: for every seed the table built by the PerlinNoise and SimplexNoise
\* constructors is a permutation of 0..255, and no noise query modifies it
\* after construction.
C6_PermutationTable ==
  /\ [](perlinStatic.init => IsPermutationTable(perlinStatic.table))
  /\ [](simplexStatic.init => IsPermutationTable(simplexStatic.table))
  /\ [][/\ perlinStatic.init => perlinStatic'.table = perlinStatic.table
        /\ simplexStatic.init => simplexStatic'.table = simplexStatic.table]_vars

C6_Witness ==
  /\ perlinStatic.init /\ simplexStatic.init
  /\ perlinStatic.table # iota(TableSize) \o iota(TableSize)
  /\ \/ noiseCall.fn = "perlin" /\ noiseCall.seed # perlinStatic.seed
     \/ noiseCall.fn = "simplex" /\ noiseCall.seed # simplexStatic.seed

SamplesInUnit(samples) ==
  \A k \in 1..Len(samples) : 0 <= samples[k] /\ samples[k] <= Scale

ResultInUnit(ret) == ret.kind = "num" /\ 0 <= ret.val /\ ret.val <= Scale

C9_NonPositiveOctavesRejected ==
  (fbmCall.called /\ fbmCall.octaves <= 0) => fbmCall.outcome = "error"

(***************************************************************************)
(* Properties of the noise objects.                                        *)
(***************************************************************************)
\* C11: for every seed and every input coordinate, PerlinNoise::noise and
\* SimplexNoise::noise2D return a value in [0, 1].
C11_NoiseInUnit ==
  sample.fn \in {"perlin", "simplex"} => sample.ret \in 0..Scale

\* C12: every index noise and noise2D read the 512-entry table with lies in
\* 0..511, for cells of either sign, with no modulo on the sums; the simplex
\* gradient indices perm[...] % 12 lie in 0..11.
C12_IndicesInTable ==
  /\ sample.fn \in {"perlin", "simplex"} =>
       /\ Len(sample.idx) > 0
       /\ \A k \in 1..Len(sample.idx) :
            sample.idx[k] \in 0..(2 * TableSize - 1)
  /\ sample.fn = "simplex" =>
       /\ Len(sample.gi) = 3
       /\ \A k \in 1..3 : sample.gi[k] \in 0..11

\* a call of noise at a negative coordinate that reads the second copy of
\* the table
C12_Witness ==
  /\ sample.fn = "perlin"
  /\ sample.x < 0
  /\ \E k \in 1..Len(sample.idx) : sample.idx[k] >= TableSize

\* C13: in any sequence of calls to generatePerlinNoise (generateSimplexNoise)
\* the hidden engine is constructed once, by the first call and from its seed
\* argument; it never changes afterwards and it answers every later call,
\* whatever seed that call passes.
C13_EngineBuiltOnce ==
  /\ [](perlinStatic.init =>
          perlinStatic.table = PerlinNoise(perlinStatic.seed))
  /\ [](simplexStatic.init =>
          simplexStatic.table = SimplexNoise(simplexStatic.seed))
  /\ [][/\ perlinStatic.init => perlinStatic' = perlinStatic
        /\ simplexStatic.init => simplexStatic' = simplexStatic
        /\ (~perlinStatic.init /\ perlinStatic'.init) =>
             noiseCall'.fn = "perlin" /\ perlinStatic'.seed = noiseCall'.seed
        /\ (~simplexStatic.init /\ simplexStatic'.init) =>
             noiseCall'.fn = "simplex"
             /\ simplexStatic'.seed = noiseCall'.seed
        /\ noiseCall'.fn = "perlin" =>
             /\ perlinStatic'.init
             /\ noiseCall'.ret = noise(perlinStatic'.table, noiseCall'.x,
                                       noiseCall'.y, noiseCall'.z)
        /\ noiseCall'.fn = "simplex" =>
             /\ simplexStatic'.init
             /\ noiseCall'.ret = SimplexNoise_noise2D(simplexStatic'.table,
                                                      noiseCall'.x,
                                                      noiseCall'.y)]_vars

\* a later call that passes a seed whose table is not the engine's
C13_Witness ==
  /\ noiseCall.fn = "perlin"
  /\ perlinStatic.init
  /\ noiseCall.seed # perlinStatic.seed
  /\ PerlinNoise(noiseCall.seed) # perlinStatic.table

\* the corners (dx, dy, dz) of a Perlin cell
PerlinCorners == {0, 1} \X {0, 1} \X {0, 1}

\* the cell next to c along an axis, masked like every cell coordinate
NextCell(c, d) == (c + d) % 256

\* the gradient index noise2D computes for the first corner of cell (i, j)
SimplexFirst(perm, i, j) == simplexHash(perm, i, j, 0, 0).gi0

\* C16: the hash that selects the gradient of a lattice corner is the same
\* from every cell sharing the corner: in noise the hash of each corner
\* (dx, dy, dz) of a cell is the hash of corner (0, 0, 0) of the cell at that
\* offset, the coordinate + 1 masked with 255 (255 + 1 is cell 0); in noise2D
\* the second and third corner hashes are the first-corner hashes of the
\* cells (i + i1, j + j1) and (i + 1, j + 1).
C16_SharedCornerHash ==
  /\ sample.fn = "perlin" =>
       LET X == CellOf(sample.x)
           Y == CellOf(sample.y)
           Z == CellOf(sample.z)
       IN  \A c \in PerlinCorners :
             perlinCorner(noiseObj.p, X, Y, Z, c[1], c[2], c[3])
               = perlinCorner(noiseObj.p, NextCell(X, c[1]), NextCell(Y, c[2]),
                              NextCell(Z, c[3]), 0, 0, 0)
  /\ sample.fn = "simplex" =>
       LET c == simplexCell(sample.x, sample.y)
       IN  /\ sample.gi[1] = SimplexFirst(noiseObj.perm, c.i, c.j)
           /\ sample.gi[2] = SimplexFirst(noiseObj.perm, c.i + c.i1,
                                          c.j + c.j1)
           /\ sample.gi[3] = SimplexFirst(noiseObj.perm, c.i + 1, c.j + 1)

\* a call of noise in cell 255 of the x axis, whose far corners belong to
\* cell 0
C16_Witness ==
  /\ sample.fn = "perlin"
  /\ CellOf(sample.x) = 255
  /\ sample.ret # Scale \div 2

\* the 12 edge vectors (+-1, +-1, 0), (+-1, 0, +-1), (0, +-1, +-1)
EdgeVectors ==
  {g \in {-1, 0, 1} \X {-1, 0, 1} \X {-1, 0, 1} :
     Cardinality({k \in 1..3 : g[k] = 0}) = 1}

dot3(g, x, y, z) == g[1] * x + g[2] * y + g[3] * z

\* grad with hash h is the dot product with the vector g, at every offset
GradIs(h, g) ==
  \A o \in GradOffsets : grad(h, o[1], o[2], o[3]) = dot3(g, o[1], o[2], o[3])

\* C19: for every h in 0..15 and every offset (x, y, z), grad returns the dot
\* product of the offset with one vector of the 12 edge vectors, and each of
\* the 12 vectors is the one selected by at least one h.
C19_GradEdgeVectors ==
  /\ sample.fn = "grad" =>
       \E g \in EdgeVectors :
         /\ sample.ret = dot3(g, sample.x, sample.y, sample.z)
         /\ GradIs(sample.hash, g)
  /\ Cardinality(EdgeVectors) = 12
  /\ \A g \in EdgeVectors : \E h \in 0..15 : GradIs(h, g)

\* grad with hash 14 at an offset off every axis: the vector (-1, 1, 0)
C19_Witness ==
  /\ sample.fn = "grad" /\ sample.hash = 14
  /\ sample.x # 0 /\ sample.y # 0 /\ sample.z # 0
  /\ sample.ret = sample.y - sample.x

====
